---- MODULE Spec2Model ----
(***************************************************************************)
(* Model of rust-xyz-chem (src/src/lib.rs): the line-by-line parser        *)
(* File::try_from, the atom-line parser Atom::from_str and the Display     *)
(* serializers of Position, Atom, Record and File.                         *)
(*                                                                         *)
(* Text is modelled at character level: a line or a token is a sequence of *)
(* one-character strings, a serialized File is a sequence of characters    *)
(* containing "\n".  Numbers are parsed from and formatted to digits, so a *)
(* parse/serialize round trip is a real computation.                       *)
(***************************************************************************)
EXTENDS Integers, Sequences, FiniteSets, TLC

VARIABLES
    pc,           \* "open": read() is about to open the file; "open_failed";
                  \* "loop": inside the for loop of try_from; "returned"; "printed"
    lines,        \* the items the reader's lines() iterator has yielded so far
    line_nr,      \* the index lines.enumerate() gives the next item
    file,         \* try_from's local `file`
    record,       \* try_from's local `record`
    parse_state,  \* try_from's local `parse_state`
    state_log,    \* parse_state at the moment each item was taken (history)
    result,       \* the value try_from returned
    out           \* the text Display for File wrote (println!("{file}"))

vars == <<pc, lines, line_nr, file, record, parse_state, state_log, result, out>>

----------------------------------------------------------------------------
(* Bounds of the model.                                                    *)

\* The longest input, in lines, the reader yields before end of input.
MaxLines == 6

----------------------------------------------------------------------------
(* Characters.                                                             *)

\* char::is_whitespace restricted to the characters of the model.
IsWhitespace(c) == c \in {" ", "\t"}

Digits == <<"0", "1", "2", "3", "4", "5", "6", "7", "8", "9">>

IsDigit(c) == \E i \in DOMAIN Digits : Digits[i] = c

\* char::to_digit(10) of a decimal digit.
DigitVal(c) == (CHOOSE i \in DOMAIN Digits : Digits[i] = c) - 1

AllDigits(s) == \A i \in DOMAIN s : IsDigit(s[i])

RECURSIVE Pow10(_)
Pow10(n) == IF n = 0 THEN 1 ELSE 10 * Pow10(n - 1)

\* The value of a run of decimal digits, most significant first.
RECURSIVE DigitsValue(_)
DigitsValue(s) ==
    IF s = <<>> THEN 0
    ELSE 10 * DigitsValue(SubSeq(s, 1, Len(s) - 1)) + DigitVal(s[Len(s)])

\* The decimal digits of a natural number, as integer formatting writes them.
RECURSIVE NatDigits(_)
NatDigits(n) ==
    IF n < 10 THEN <<Digits[n + 1]>>
    ELSE Append(NatDigits(n \div 10), Digits[(n % 10) + 1])

Tail1(s) == SubSeq(s, 2, Len(s))

----------------------------------------------------------------------------
(* Results.  Ok(v) and Err(e) of Rust's Result.                            *)

Ok(v) == [tag |-> "Ok", val |-> v]

Err(e) == [tag |-> "Err", err |-> e]

IsOk(r) == r.tag = "Ok"

IsErr(r) == r.tag = "Err"

----------------------------------------------------------------------------
(* str::parse::<usize>() and str::parse::<f64>(), on the model's alphabet  *)
(* (digits, "+", "-", ".", ",", letters other than e, i, n, f, a).         *)

\* usize::from_str: an optional "+", then one or more decimal digits.  No
\* trimming: any other character, a "-" included, is an invalid digit.
ParseUsize(s) ==
    IF s = <<>> THEN Err("ParseIntError")
    ELSE LET body == IF s[1] = "+" THEN Tail1(s) ELSE s
         IN  IF body = <<>> \/ ~AllDigits(body) THEN Err("ParseIntError")
             ELSE Ok(DigitsValue(body))

\* The index of the first "." of s, or Len(s) + 1 when it has none.
DotIndex(s) ==
    IF \E i \in DOMAIN s : s[i] = "."
    THEN CHOOSE i \in DOMAIN s : s[i] = "." /\ \A j \in 1..(i - 1) : s[j] # "."
    ELSE Len(s) + 1

\* A parsed f64: the decimal m / 10^e with sign neg, with no trailing zero in
\* the fraction (2.50 and 2.5 are the same float).
RECURSIVE F64(_, _, _)
F64(neg, m, e) ==
    IF e > 0 /\ m % 10 = 0 THEN F64(neg, m \div 10, e - 1)
    ELSE [neg |-> neg, m |-> m, e |-> e]

\* f64::from_str: an optional sign, digits with at most one ".", at least
\* one digit.  (Exponents, inf and nan need letters the model's tokens lack.)
ParseF64(s) ==
    IF s = <<>> THEN Err("ParseFloatError")
    ELSE LET signed == s[1] \in {"+", "-"}
             body   == IF signed THEN Tail1(s) ELSE s
             d      == DotIndex(body)
             int    == SubSeq(body, 1, d - 1)
             frac   == SubSeq(body, d + 1, Len(body))
         IN  IF AllDigits(int) /\ AllDigits(frac) /\ Len(int) + Len(frac) > 0
             THEN Ok(F64(s[1] = "-", DigitsValue(int \o frac), Len(frac)))
             ELSE Err("ParseFloatError")

\* Zero-padding of a digit run to width n.
RECURSIVE PadZeros(_, _)
PadZeros(s, n) == IF Len(s) >= n THEN s ELSE PadZeros(<<"0">> \o s, n)

\* Display for f64: shortest decimal that reads back as the same float.
DisplayF64(v) ==
    (IF v.neg THEN <<"-">> ELSE <<>>)
    \o NatDigits(v.m \div Pow10(v.e))
    \o (IF v.e = 0 THEN <<>>
        ELSE <<".">> \o PadZeros(NatDigits(v.m % Pow10(v.e)), v.e))

\* Display for usize.
DisplayUsize(n) == NatDigits(n)

----------------------------------------------------------------------------
(* Errors, positions, atoms, records, files.                               *)

\* Variant: the line is reported one-based.
ParseError_new_OneBased(kind, line) == [kind |-> kind, line |-> line + 1]

\* ParseError::new(kind, line).
ParseError_new(kind, line) == [kind |-> kind, line |-> line]

Position(x, y, z) == [x |-> x, y |-> y, z |-> z]

Atom(label, position) == [label |-> label, position |-> position]

\* str::split_whitespace, scanning from index i with the token cur under
\* construction and the tokens acc already complete.
RECURSIVE SplitFrom(_, _, _, _)
SplitFrom(s, i, cur, acc) ==
    LET closed == IF cur = <<>> THEN acc ELSE Append(acc, cur)
    IN  IF i > Len(s) THEN closed
        ELSE IF IsWhitespace(s[i]) THEN SplitFrom(s, i + 1, <<>>, closed)
        ELSE SplitFrom(s, i + 1, Append(cur, s[i]), acc)

split_whitespace(s) == SplitFrom(s, 1, <<>>, <<>>)

\* line.next().ok_or(MissingValue)?.parse()? for the i-th token.
NextCoord(tokens, i) ==
    IF Len(tokens) < i THEN Err("MissingValue") ELSE ParseF64(tokens[i])

\* Variant: the tokens are counted before any of them is parsed.
Atom_from_str_CountFirst(line) ==
    LET t == split_whitespace(line)
    IN  IF Len(t) < 4 THEN Err("MissingValue")
        ELSE IF \E i \in 2..4 : IsErr(ParseF64(t[i])) THEN Err("ParseFloatError")
        ELSE Ok(Atom(t[1], Position(ParseF64(t[2]).val, ParseF64(t[3]).val,
                                    ParseF64(t[4]).val)))

\* Variant: z is parsed from the third token again, not from the fourth.
Atom_from_str_ZFromThird(line) ==
    LET t == split_whitespace(line)
    IN  IF Len(t) < 1 THEN Err("MissingValue")
        ELSE LET x == NextCoord(t, 2)
             IN  IF IsErr(x) THEN x
                 ELSE LET y == NextCoord(t, 3)
                      IN  IF IsErr(y) THEN y
                          ELSE IF Len(t) < 4 THEN Err("MissingValue")
                          ELSE Ok(Atom(t[1], Position(x.val, y.val, y.val)))

\* Variant: a fifth token is refused.
Atom_from_str_NoFifth(line) ==
    LET t == split_whitespace(line)
    IN  IF Len(t) > 4 THEN Err("ParseFloatError")
        ELSE Atom_from_str_CountFirst(line)

\* Atom::from_str: label, x, y, z taken in order; the first failure returns.
Atom_from_str(line) ==
    LET t == split_whitespace(line)
    IN  IF Len(t) < 1 THEN Err("MissingValue")
        ELSE LET x == NextCoord(t, 2)
             IN  IF IsErr(x) THEN x
                 ELSE LET y == NextCoord(t, 3)
                      IN  IF IsErr(y) THEN y
                          ELSE LET z == NextCoord(t, 4)
                               IN  IF IsErr(z) THEN z
                                   ELSE Ok(Atom(t[1], Position(x.val, y.val, z.val)))

\* Record::new(comment, atoms): count is the number of atoms given.
Record_new(comment, atoms) ==
    [count |-> Len(atoms), comment |-> comment, atoms |-> atoms]

\* File::new().
File_new == [records |-> <<>>]

\* File::push(record).
File_push(f, r) == [records |-> Append(f.records, r)]

----------------------------------------------------------------------------
(* Display.  Text is a sequence of characters; writeln! appends "\n".      *)

NL == <<"\n">>

TAB == <<"\t">>

\* Display for Position: x, y, z joined by tabs.
DisplayPosition(p) ==
    DisplayF64(p.x) \o TAB \o DisplayF64(p.y) \o TAB \o DisplayF64(p.z)

\* Variant: no separator between the label and the position.
DisplayAtom_NoTab(a) == a.label \o DisplayPosition(a.position)

\* Display for Atom: label, a tab, the position.
DisplayAtom(a) == a.label \o TAB \o DisplayPosition(a.position)

\* writeln!(f, "{atom}") for each atom of a sequence, in order.
RECURSIVE DisplayAtoms(_)
DisplayAtoms(atoms) ==
    IF atoms = <<>> THEN <<>>
    ELSE DisplayAtom(Head(atoms)) \o NL \o DisplayAtoms(Tail(atoms))

\* Display for Record: writeln!(f, "{}\n{}", count, comment), then the atoms.
DisplayRecord(r) ==
    DisplayUsize(r.count) \o NL \o r.comment \o NL \o DisplayAtoms(r.atoms)

\* writeln!(f, "{record}") for each record of a sequence, in order.
RECURSIVE DisplayRecords(_)
DisplayRecords(records) ==
    IF records = <<>> THEN <<>>
    ELSE DisplayRecord(Head(records)) \o NL \o DisplayRecords(Tail(records))

\* Variant: write! in place of writeln!, no newline after a record.
RECURSIVE DisplayFile_NoNewline(_)
DisplayFile_NoNewline(f) ==
    IF f.records = <<>> THEN <<>>
    ELSE DisplayRecord(Head(f.records))
         \o DisplayFile_NoNewline([records |-> Tail(f.records)])

\* Display for File.
DisplayFile(f) == DisplayRecords(f.records)

\* BufRead::lines() over a text: the runs between "\n"; a final "\n" ends the
\* last line and starts no new one.  Every line read is Ok.
RECURSIVE LinesFrom(_, _, _, _)
LinesFrom(text, i, cur, acc) ==
    IF i > Len(text) THEN (IF cur = <<>> THEN acc ELSE Append(acc, Ok(cur)))
    ELSE IF text[i] = "\n" THEN LinesFrom(text, i + 1, <<>>, Append(acc, Ok(cur)))
    ELSE LinesFrom(text, i + 1, Append(cur, text[i]), acc)

BufRead_lines(text) == LinesFrom(text, 1, <<>>, <<>>)

----------------------------------------------------------------------------
(* File::try_from: the body of the for loop, one arm per ParseState.       *)
(* A parser value s is [file, record, parse_state, ret]; ret is <<>> while *)
(* the loop runs and <<Err(e)>> once a `?` has returned e.                 *)

Returned(s, kind, nr) ==
    [s EXCEPT !.ret = <<Err(ParseError_new(kind, nr))>>]

\* Variant: an empty line is not skipped but parsed as a count.
CountArm_NoBlankSkip(s, line, nr) ==
    LET n == ParseUsize(line)
    IN  IF IsErr(n) THEN Returned(s, n.err, nr)
        ELSE [s EXCEPT !.record.count = n.val, !.parse_state = "Comment"]

\* Variant: a line that is not a count is skipped like an empty one.
CountArm_SkipsJunk(s, line, nr) ==
    LET n == ParseUsize(line)
    IN  IF line = <<>> \/ IsErr(n) THEN s
        ELSE [s EXCEPT !.record.count = n.val, !.parse_state = "Comment"]

\* ParseState::Count: an empty line is skipped, anything else is parsed as
\* the count.
CountArm(s, line, nr) ==
    IF line = <<>> THEN s
    ELSE LET n == ParseUsize(line)
         IN  IF IsErr(n) THEN Returned(s, n.err, nr)
             ELSE [s EXCEPT !.record.count = n.val, !.parse_state = "Comment"]

\* Variant: an empty line is skipped in the Comment state too.
CommentArm_SkipsBlank(s, line) ==
    IF line = <<>> THEN s
    ELSE [s EXCEPT !.record.comment = line, !.parse_state = "Atoms"]

\* ParseState::Comment: the line becomes the comment.
CommentArm(s, line) ==
    [s EXCEPT !.record.comment = line, !.parse_state = "Atoms"]

\* Variant: the record pushed stays the current record (no fresh record).
AtomsArm_NoReset(s, line, nr) ==
    LET a == Atom_from_str(line)
    IN  IF IsErr(a) THEN Returned(s, a.err, nr)
        ELSE LET atoms == Append(s.record.atoms, a.val)
             IN  IF Len(atoms) < s.record.count
                 THEN [s EXCEPT !.record.atoms = atoms]
                 ELSE [s EXCEPT !.file = File_push(s.file, [s.record EXCEPT !.atoms = atoms]),
                                !.record.atoms = atoms,
                                !.parse_state = "Count"]

\* Variant: the record is pushed once the length exceeds the count.
AtomsArm_LenLeCount(s, line, nr) ==
    LET a == Atom_from_str(line)
    IN  IF IsErr(a) THEN Returned(s, a.err, nr)
        ELSE LET atoms == Append(s.record.atoms, a.val)
             IN  IF Len(atoms) <= s.record.count
                 THEN [s EXCEPT !.record.atoms = atoms]
                 ELSE [s EXCEPT !.file = File_push(s.file, [s.record EXCEPT !.atoms = atoms]),
                                !.record = Record_new(<<>>, <<>>),
                                !.parse_state = "Count"]

\* ParseState::Atoms: the atom is pushed, then the length is compared with
\* the count.
AtomsArm(s, line, nr) ==
    LET a == Atom_from_str(line)
    IN  IF IsErr(a) THEN Returned(s, a.err, nr)
        ELSE LET atoms == Append(s.record.atoms, a.val)
             IN  IF Len(atoms) < s.record.count
                 THEN [s EXCEPT !.record.atoms = atoms]
                 ELSE [s EXCEPT !.file = File_push(s.file, [s.record EXCEPT !.atoms = atoms]),
                                !.record = Record_new(<<>>, <<>>),
                                !.parse_state = "Count"]

\* One iteration: the item's read error is mapped first, then the match.
LoopBody(s, item, nr) ==
    IF IsErr(item) THEN Returned(s, "ReadError", nr)
    ELSE CASE s.parse_state = "Count"   -> CountArm(s, item.val, nr)
           [] s.parse_state = "Comment" -> CommentArm(s, item.val)
           [] s.parse_state = "Atoms"   -> AtomsArm(s, item.val, nr)

\* The locals before the loop.
ParserInit ==
    [file |-> File_new, record |-> Record_new(<<>>, <<>>),
     parse_state |-> "Count", ret |-> <<>>]

\* Variant: a record under construction is pushed at the end of the input.
AfterLoop_FlushPartial(s) ==
    IF s.parse_state = "Count" THEN Ok(s.file)
    ELSE Ok(File_push(s.file, s.record))

\* Variant: a new File is returned, not the one the loop filled.
AfterLoop_NewFile(s) == Ok(File_new)

\* The value returned when the iterator is exhausted.
AfterLoop(s) == Ok(s.file)

\* The loop over items[i..], stopping at the first return.
RECURSIVE Loop(_, _, _)
Loop(s, items, i) ==
    IF s.ret # <<>> \/ i > Len(items) THEN s
    ELSE Loop(LoopBody(s, items[i], i - 1), items, i + 1)

\* File::try_from on a whole input.
File_try_from(items) ==
    LET s == Loop(ParserInit, items, 1)
    IN  IF s.ret # <<>> THEN s.ret[1] ELSE AfterLoop(s)

----------------------------------------------------------------------------
(* The input.  The reader yields one item per iteration: Ok(line) or an    *)
(* I/O error.  The lines cover every arm of the parser and of from_str.    *)

LineBlank == <<>>

LineZero == <<"0">>

LineOne == <<"1">>

\* "+2": usize::from_str takes a leading "+".
LinePlusTwo == <<"+", "2">>

\* Text that is neither a count nor an atom.
LineJunk == <<"x">>

\* "C\t1\t2\t5": label and three coordinates, tab-separated.
LineAtom == <<"C", "\t", "1", "\t", "2", "\t", "5">>

\* "H 1.5  2.0 -1 x": runs of blanks, a fraction, a sign, a fifth token.
LineAtomLong ==
    <<"H", " ", "1", ".", "5", " ", " ", "2", ".", "0", " ", "-", "1", " ", "x">>

\* "\t2\t1\t5": no label, three numbers.
LineNoLabel == <<"\t", "2", "\t", "1", "\t", "5">>

\* "C\t1,5\t2\t5": four tokens, a decimal comma in the first coordinate.
LineBadFloat == <<"C", "\t", "1", ",", "5", "\t", "2", "\t", "5">>

\* "C 1,5 2": three tokens, a decimal comma in the first coordinate.
LineShortBadFloat == <<"C", " ", "1", ",", "5", " ", "2">>

Lines ==
    {LineBlank, LineZero, LineOne, LinePlusTwo, LineJunk, LineAtom,
     LineAtomLong, LineNoLabel, LineBadFloat, LineShortBadFloat}

\* The non-empty lines by what the Count arm makes of them.
CountLines == {l \in Lines : l # <<>> /\ IsOk(ParseUsize(l))}

NotCountLines == {l \in Lines : l # <<>> /\ IsErr(ParseUsize(l))}

\* The lines by what the Atoms arm makes of them.
AtomLines == {l \in Lines : IsOk(Atom_from_str(l))}

NotAtomLines == {l \in Lines : IsErr(Atom_from_str(l))}

----------------------------------------------------------------------------
(* The state machine: one action per arm and outcome of the loop body.     *)

Init ==
    /\ pc = "open"
    /\ lines = <<>>
    /\ line_nr = 0
    /\ file = ParserInit.file
    /\ record = ParserInit.record
    /\ parse_state = ParserInit.parse_state
    /\ state_log = <<>>
    /\ result = <<>>
    /\ out = <<>>

\* Variant: the failed open is reported at line 1.
OpenFailure_LineOne == Err(ParseError_new("ReadError", 1))

\* fs::File::open(path).map_err(|err| ParseError::new(err.into(), 0)).
OpenFailure == Err(ParseError_new("ReadError", 0))

\* read(path): the file cannot be opened, `?` returns the mapped error.
OpenFails ==
    /\ pc = "open"
    /\ result' = <<OpenFailure>>
    /\ pc' = "open_failed"
    /\ UNCHANGED <<lines, line_nr, file, record, parse_state, state_log, out>>

\* read(path): the file is open, File::try_from(reader) starts.
OpenSucceeds ==
    /\ pc = "open"
    /\ pc' = "loop"
    /\ UNCHANGED <<lines, line_nr, file, record, parse_state, state_log, result, out>>

\* The locals of try_from as a parser value.
Cur == [file |-> file, record |-> record, parse_state |-> parse_state, ret |-> <<>>]

\* One iteration of the for loop on the item the reader yields, for a
\* reader that yields at most max items.
TakeWithin(item, max) ==
    LET s == LoopBody(Cur, item, line_nr)
    IN  /\ pc = "loop"
        /\ Len(lines) < max
        /\ lines' = Append(lines, item)
        /\ state_log' = Append(state_log, parse_state)
        /\ line_nr' = line_nr + 1
        /\ file' = s.file
        /\ record' = s.record
        /\ parse_state' = s.parse_state
        /\ result' = s.ret
        /\ pc' = IF s.ret # <<>> THEN "returned" ELSE "loop"
        /\ out' = out

Take(item) == TakeWithin(item, MaxLines)

\* line.map_err(..)? on an item the reader could not read.
ReadFails == Take(Err("io"))

CountSkipsBlank == parse_state = "Count" /\ Take(Ok(LineBlank))

CountAccepts ==
    /\ parse_state = "Count"
    /\ \E l \in CountLines : Take(Ok(l))

CountRejects ==
    /\ parse_state = "Count"
    /\ \E l \in NotCountLines : Take(Ok(l))

CommentStores == parse_state = "Comment" /\ \E l \in Lines : Take(Ok(l))

AtomsContinues ==
    /\ parse_state = "Atoms"
    /\ Len(record.atoms) + 1 < record.count
    /\ \E l \in AtomLines : Take(Ok(l))

AtomsCompletes ==
    /\ parse_state = "Atoms"
    /\ ~(Len(record.atoms) + 1 < record.count)
    /\ \E l \in AtomLines : Take(Ok(l))

AtomsRejects ==
    /\ parse_state = "Atoms"
    /\ \E l \in NotAtomLines : Take(Ok(l))

\* The iterator is exhausted: Ok(file).
EndOfInput ==
    /\ pc = "loop"
    /\ result' = <<AfterLoop(Cur)>>
    /\ pc' = "returned"
    /\ UNCHANGED <<lines, line_nr, file, record, parse_state, state_log, out>>

\* println!("{file}") on the parsed file.
PrintFile ==
    /\ pc = "returned"
    /\ IsOk(result[1])
    /\ out' = DisplayFile(result[1].val)
    /\ pc' = "printed"
    /\ UNCHANGED <<lines, line_nr, file, record, parse_state, state_log, result>>

Next ==
    \/ OpenFails
    \/ OpenSucceeds
    \/ ReadFails
    \/ CountSkipsBlank
    \/ CountAccepts
    \/ CountRejects
    \/ CommentStores
    \/ AtomsContinues
    \/ AtomsCompletes
    \/ AtomsRejects
    \/ EndOfInput
    \/ PrintFile

Spec == Init /\ [][Next]_vars

----------------------------------------------------------------------------
(* The same loop on inputs made of well-formed records only: blank lines   *)
(* and counts of at least 1 where a count is due, then a comment, then     *)
(* valid atom lines.  The inputs are longer than those of Spec.            *)

\* The longest input of well-formed records, in lines.
MaxFrameLines == 8

FrameCounts == {LineOne, LinePlusTwo}

\* A comment may be empty, and may look like a count.
FrameComments == {LineBlank, LineOne, LineJunk}

FrameAtoms == {LineAtom, LineAtomLong}

FrameBlank == parse_state = "Count" /\ TakeWithin(Ok(LineBlank), MaxFrameLines)

FrameCount ==
    /\ parse_state = "Count"
    /\ \E l \in FrameCounts : TakeWithin(Ok(l), MaxFrameLines)

FrameComment ==
    /\ parse_state = "Comment"
    /\ \E l \in FrameComments : TakeWithin(Ok(l), MaxFrameLines)

FrameAtom ==
    /\ parse_state = "Atoms"
    /\ \E l \in FrameAtoms : TakeWithin(Ok(l), MaxFrameLines)

NextFrames ==
    \/ OpenSucceeds
    \/ FrameBlank
    \/ FrameCount
    \/ FrameComment
    \/ FrameAtom
    \/ EndOfInput

SpecFrames == Init /\ [][NextFrames]_vars

----------------------------------------------------------------------------
(* Short inputs over lines with blanks around a count and with tokens      *)
(* after the fourth of an atom line.                                       *)

MaxPaddedLines == 4

\* " 1" and "1 ": a count with a blank before or after it.
LinePadded == <<" ", "1">>

LineOnePadded == <<"1", " ">>

\* " ": a line of one blank.
LineSpaces == <<" ">>

\* "C 1 2 5 7": a fifth token that is a number.
LineFiveNumbers == <<"C", " ", "1", " ", "2", " ", "5", " ", "7">>

\* "C 1,5 2 5 x": five tokens, a decimal comma in the first coordinate.
LineLongBadFloat ==
    <<"C", " ", "1", ",", "5", " ", "2", " ", "5", " ", "x">>

PaddedLines ==
    {LineBlank, LineOne, LinePadded, LineOnePadded, LineSpaces, LineAtom,
     LineAtomLong, LineFiveNumbers, LineLongBadFloat}

\* One iteration in each state of the match, on any of these lines.
PaddedCount ==
    /\ parse_state = "Count"
    /\ \E l \in PaddedLines : TakeWithin(Ok(l), MaxPaddedLines)

PaddedComment ==
    /\ parse_state = "Comment"
    /\ \E l \in PaddedLines : TakeWithin(Ok(l), MaxPaddedLines)

PaddedAtom ==
    /\ parse_state = "Atoms"
    /\ \E l \in PaddedLines : TakeWithin(Ok(l), MaxPaddedLines)

NextPadded ==
    \/ OpenSucceeds
    \/ PaddedCount
    \/ PaddedComment
    \/ PaddedAtom
    \/ EndOfInput

SpecPadded == Init /\ [][NextPadded]_vars

----------------------------------------------------------------------------
(* Vocabulary of the properties.                                           *)

\* try_from has returned.
HasReturned == pc \in {"returned", "printed"}

\* The value try_from returned.
Returned_value == result[1]

\* No item made the loop return: the iterator was exhausted.
ReachedEndOfInput == HasReturned /\ Loop(ParserInit, lines, 1).ret = <<>>

\* The last item the loop took, and the arm that took it.
LastItem == lines[Len(lines)]

LastArm == state_log[Len(state_log)]

\* The last item was a readable line taken by the given arm.
LastLineTakenBy(arm) ==
    /\ Len(lines) > 0
    /\ IsOk(LastItem)
    /\ LastArm = arm

LastTokens == split_whitespace(LastItem.val)

----------------------------------------------------------------------------
(* C1.  If the input ends while the parser is mid-record (in the Comment   *)
(* state, or in the Atoms state with fewer atoms than the declared count), *)
(* try_from fails with an unexpected-end-of-input error.                   *)
(* The code returns Ok(file) whenever the iterator is exhausted.           *)

MidRecord ==
    \/ parse_state = "Comment"
    \/ parse_state = "Atoms" /\ Len(record.atoms) < record.count

C1_TruncatedInputFails ==
    (ReachedEndOfInput /\ MidRecord) =>
        /\ IsErr(Returned_value)
        /\ Returned_value.err.kind = "UnexpectedEndOfInput"

----------------------------------------------------------------------------
(* C2.  When the declared count is 0 the record is complete right after    *)
(* its comment line: it is appended with an empty atom sequence and the    *)
(* next line is handled in the Count state.                                *)
(* The code always goes from Comment to Atoms and takes one atom line.     *)

C2_ZeroCountCompletesAtComment ==
    (pc = "loop" /\ LastLineTakenBy("Comment") /\ record.count = 0) =>
        /\ parse_state = "Count"
        /\ Len(file.records) > 0
        /\ file.records[Len(file.records)].atoms = <<>>

----------------------------------------------------------------------------
(* C3.  Round trip: displaying a successfully parsed File and parsing the  *)
(* text again succeeds and yields the same records (count, comment, atoms).*)

----------------------------------------------------------------------------
(* C4.  Every record of a successfully parsed File has atoms.len() equal   *)
(* to count, a count of 0 included.                                        *)
(* The code gives a record declared with count 0 one atom.                 *)

C4_AtomsLenIsCount ==
    (HasReturned /\ IsOk(Returned_value)) =>
        \A i \in DOMAIN Returned_value.val.records :
            Len(Returned_value.val.records[i].atoms) = Returned_value.val.records[i].count

----------------------------------------------------------------------------
(* C5.  In the Count state a blank line is skipped: putting any number of  *)
(* blank lines where the parser is in the Count state (start of input,     *)
(* between records, end of input) leaves the parse result as it was: the   *)
(* same File, or the same failure on the same line, whose number moves by  *)
(* the number of lines put in front of it.                                 *)

\* The most blank lines inserted at one place.
MaxBlanks == 1

Blanks(n) == [i \in 1..n |-> Ok(LineBlank)]

InsertBlanks(items, p, n) ==
    SubSeq(items, 1, p) \o Blanks(n) \o SubSeq(items, p + 1, Len(items))

\* The parser is in the Count state when it is about to take item p + 1
\* (or, for p = Len(lines), when the input ends).
InCountStateAt(p) ==
    IF p < Len(lines) THEN state_log[p + 1] = "Count"
    ELSE IsOk(Returned_value) /\ parse_state = "Count"

\* The places to insert at: in front of a run of blank lines or of a count
\* line.  (Inserting inside or behind a run of blank lines gives the same
\* input as inserting in front of it.)
InsertionPoint(p) ==
    /\ InCountStateAt(p)
    /\ (p > 0 => lines[p] # Ok(LineBlank))

\* A result with its line number, if it has one, moved by n.
MovedBy(r, n) ==
    IF IsOk(r) THEN r ELSE Err(ParseError_new(r.err.kind, r.err.line + n))

C5_BlankLinesSkipped ==
    pc = "returned" =>
        \A p \in 0..Len(lines) : \A n \in 1..MaxBlanks :
            InsertionPoint(p) =>
                File_try_from(InsertBlanks(lines, p, n)) = MovedBy(Returned_value, n)

\* A file with a record was parsed from an input with blank lines in three
\* places: before the first count line, after the record and at the end.
C5_Witness ==
    /\ pc = "returned"
    /\ IsOk(Returned_value)
    /\ Len(Returned_value.val.records) = 1
    /\ Len(lines) = 6
    /\ lines[1] = Ok(LineBlank)
    /\ lines[5] = Ok(LineBlank)
    /\ lines[6] = Ok(LineBlank)
    /\ File_try_from(SelectSeq(lines, LAMBDA it : it # Ok(LineBlank)))
           = Returned_value

----------------------------------------------------------------------------
(* C6.  Fail-fast with position: a failed parse returns the number (the    *)
(* index from enumerate) of the first line whose transition fails; every   *)
(* line before it was accepted, no line after it is examined and no File   *)
(* is returned.                                                            *)

C6_FailedAtLast ==
    (HasReturned /\ IsErr(Returned_value)) =>
        /\ Len(lines) > 0
        /\ Returned_value.err.line = Len(lines) - 1
        /\ Loop(ParserInit, SubSeq(lines, 1, Len(lines) - 1), 1).ret = <<>>
        /\ Loop(ParserInit, lines, 1).ret = <<Returned_value>>
        /\ DOMAIN Returned_value = {"tag", "err"}

C6_FailFast ==
    /\ []C6_FailedAtLast
    /\ [][HasReturned => (lines' = lines /\ result' = result)]_vars

\* The third line of an input, an atom line, fails after two accepted ones.
C6_Witness ==
    /\ HasReturned
    /\ IsErr(Returned_value)
    /\ Len(lines) = 3
    /\ LastLineTakenBy("Atoms")
    /\ Returned_value.err = ParseError_new("MissingValue", 2)

----------------------------------------------------------------------------
(* C7.  As claimed: every atom line with fewer than 4 tokens fails with    *)
(* MissingValue, whatever the tokens that are present contain.             *)
(* from_str parses each coordinate as soon as it has taken it, so a bad    *)
(* coordinate is reported before the missing token is noticed.             *)

C7_ShortLineIsMissingValue ==
    (LastLineTakenBy("Atoms") /\ Len(LastTokens) < 4) =>
        /\ HasReturned
        /\ IsErr(Returned_value)
        /\ Returned_value.err.kind = "MissingValue"

(* C7, amended.  Every atom line with fewer than 4 tokens fails: with      *)
(* MissingValue when every coordinate token present (the second and third, *)
(* if any) is a valid float - so also when the label is absent and three   *)
(* numbers follow - and with ParseFloatError otherwise.                    *)

PresentCoordsValid(t) == \A i \in 2..Len(t) : IsOk(ParseF64(t[i]))

C7_ShortLineFails ==
    (LastLineTakenBy("Atoms") /\ Len(LastTokens) < 4) =>
        /\ HasReturned
        /\ IsErr(Returned_value)
        /\ Returned_value.err.kind =
               IF PresentCoordsValid(LastTokens) THEN "MissingValue"
               ELSE "ParseFloatError"
        /\ (LastItem.val = LineNoLabel => Returned_value.err.kind = "MissingValue")

\* An atom line of three tokens, the second no float, was rejected.
C7_Witness ==
    /\ HasReturned
    /\ LastLineTakenBy("Atoms")
    /\ Len(LastTokens) = 3
    /\ ~PresentCoordsValid(LastTokens)
    /\ Returned_value.err.kind = "ParseFloatError"

----------------------------------------------------------------------------
(* C8.  An atom line with at least 4 tokens parses to the atom whose label *)
(* is token 1 and whose position is tokens 2, 3, 4 exactly when those      *)
(* three are valid floating-point numerals; otherwise it fails with        *)
(* ParseFloatError.                                                        *)

\* The atom the Atoms arm pushed last.
LastAtomPushed ==
    IF parse_state = "Atoms" THEN record.atoms[Len(record.atoms)]
    ELSE LET r == file.records[Len(file.records)] IN r.atoms[Len(r.atoms)]

\* A decimal numeral of the model's alphabet: an optional sign, then digits
\* around at most one ".", one digit at least.
IsNumeral(tok) ==
    \E sign \in {<<>>, <<"+">>, <<"-">>} :
        \E k \in 0..Len(tok), d \in 0..1 :
            /\ Len(sign) + k + d <= Len(tok)
            /\ SubSeq(tok, 1, Len(sign)) = sign
            /\ AllDigits(SubSeq(tok, Len(sign) + 1, Len(sign) + k))
            /\ (d = 1 => tok[Len(sign) + k + 1] = ".")
            /\ AllDigits(SubSeq(tok, Len(sign) + k + d + 1, Len(tok)))
            /\ Len(tok) - Len(sign) - d > 0

C8_FourTokens ==
    (LastLineTakenBy("Atoms") /\ Len(LastTokens) >= 4) =>
        IF \A i \in 2..4 : IsNumeral(LastTokens[i])
        THEN /\ (HasReturned => IsOk(Returned_value))
             /\ LastAtomPushed.label = LastTokens[1]
             /\ LastAtomPushed.position =
                    Position(ParseF64(LastTokens[2]).val,
                             ParseF64(LastTokens[3]).val,
                             ParseF64(LastTokens[4]).val)
             /\ (LastItem.val = LineAtom =>
                    LastAtomPushed.position =
                        Position([neg |-> FALSE, m |-> 1, e |-> 0],
                                 [neg |-> FALSE, m |-> 2, e |-> 0],
                                 [neg |-> FALSE, m |-> 5, e |-> 0]))
        ELSE /\ HasReturned
             /\ IsErr(Returned_value)
             /\ Returned_value.err.kind = "ParseFloatError"

\* "H 1.5  2.0 -1 x" was taken as the atom H at (1.5, 2, -1).
C8_Witness ==
    /\ LastLineTakenBy("Atoms")
    /\ LastItem.val = LineAtomLong
    /\ LastAtomPushed =
           Atom(<<"H">>, Position([neg |-> FALSE, m |-> 15, e |-> 1],
                                  [neg |-> FALSE, m |-> 2, e |-> 0],
                                  [neg |-> TRUE, m |-> 1, e |-> 0]))

----------------------------------------------------------------------------
(* C9.  The count line the serializer writes for a Record is atoms.len(),  *)
(* recomputed from the atom sequence, also when the count field differs.   *)
(* Display for Record writes the count field; a record parsed from a count *)
(* line "0" holds one atom and is written with the count line "0".         *)

PrintedRecords == Returned_value.val.records

C9_CountLineIsAtomsLen ==
    pc = "printed" =>
        /\ \A i \in DOMAIN PrintedRecords :
               BufRead_lines(DisplayRecord(PrintedRecords[i]))[1]
                   = Ok(DisplayUsize(Len(PrintedRecords[i].atoms)))
        /\ (PrintedRecords # <<>> =>
               BufRead_lines(out)[1] = Ok(DisplayUsize(Len(PrintedRecords[1].atoms))))

----------------------------------------------------------------------------
(* C10.  As claimed: a displayed File is, record after record, the count   *)
(* line, the comment line and one line per atom, and no other line.        *)
(* Display for File ends every record with writeln!, after the newline the *)
(* record's own last line already has: an empty line follows every record. *)

\* The count, comment and atom lines of a record, as lines() returns them.
RecordLines(r) ==
    <<Ok(DisplayUsize(r.count)), Ok(r.comment)>>
    \o [i \in 1..Len(r.atoms) |-> Ok(DisplayAtom(r.atoms[i]))]

\* The lines of the records, each record followed by the lines in sep.
RECURSIVE LinesOfRecords(_, _)
LinesOfRecords(records, sep) ==
    IF records = <<>> THEN <<>>
    ELSE RecordLines(Head(records)) \o sep \o LinesOfRecords(Tail(records), sep)

C10_NoExtraLine ==
    pc = "printed" => BufRead_lines(out) = LinesOfRecords(PrintedRecords, <<>>)

(* C10, amended.  A displayed File is, record after record, exactly        *)
(* 2 + atoms.len() lines (count, comment, one per atom) followed by        *)
(* exactly one empty line, and nothing else: nothing before the first      *)
(* record, and after the last record only its empty line.                  *)

RECURSIVE SumLines(_)
SumLines(records) ==
    IF records = <<>> THEN 0
    ELSE 2 + Len(Head(records).atoms) + 1 + SumLines(Tail(records))

C10_OneEmptyLineAfterEachRecord ==
    pc = "printed" =>
        LET written == BufRead_lines(out)
        IN  /\ written = LinesOfRecords(PrintedRecords, <<Ok(<<>>)>>)
            /\ Len(written) = SumLines(PrintedRecords)
            /\ (out # <<>> => out[Len(out)] = "\n")

\* Two records of one atom each were displayed as eight lines.
C10_Witness ==
    /\ pc = "printed"
    /\ Len(PrintedRecords) = 2
    /\ Len(BufRead_lines(out)) = 8
    /\ BufRead_lines(out)[4] = Ok(<<>>)
    /\ BufRead_lines(out)[8] = Ok(<<>>)

----------------------------------------------------------------------------
(* C11.  Cyclic record accumulation.  The container grows by exactly one   *)
(* record exactly when the count-th atom line of the current record is     *)
(* consumed; the state then returns to Count with a fresh empty record.    *)
(* So an input of N well-formed records (each with count >= 1, blank lines *)
(* between them or not, counts differing or not) parses to a File of       *)
(* exactly those N records in input order, nothing carried over.           *)

\* This step consumes the count-th atom line of the current record.
CountthAtomConsumed ==
    /\ pc = "loop"
    /\ parse_state = "Atoms"
    /\ Len(lines') = Len(lines) + 1
    /\ Len(record.atoms) + 1 = record.count

\* The records of the complete well-formed frames in items[i..], read off
\* the text: a count n, a comment, n atom lines; blank lines between frames.
RECURSIVE FramesFrom(_, _)
FramesFrom(items, i) ==
    IF i > Len(items) THEN <<>>
    ELSE IF items[i].val = <<>> THEN FramesFrom(items, i + 1)
    ELSE LET n == ParseUsize(items[i].val).val
         IN  IF i + 1 + n > Len(items) THEN <<>>
             ELSE <<[count |-> n,
                     comment |-> items[i + 1].val,
                     atoms |-> [k \in 1..n |-> Atom_from_str(items[i + 1 + k].val).val]]>>
                  \o FramesFrom(items, i + 2 + n)

C11_GrowsAtCountthAtom ==
    IF CountthAtomConsumed
    THEN /\ file'.records =
                Append(file.records,
                       [record EXCEPT !.atoms =
                            Append(record.atoms, Atom_from_str(lines'[Len(lines')].val).val)])
         /\ parse_state' = "Count"
         /\ record' = [count |-> 0, comment |-> <<>>, atoms |-> <<>>]
    ELSE file' = file

C11_AllFramesInOrder ==
    (pc = "returned" /\ parse_state = "Count") =>
        Returned_value = Ok([records |-> FramesFrom(lines, 1)])

C11_CyclicAccumulation ==
    /\ [][C11_GrowsAtCountthAtom]_vars
    /\ []C11_AllFramesInOrder

\* Two records were parsed, of one atom and of two atoms, a blank line
\* between them, each with its own comment and atoms.
C11_Witness ==
    /\ pc = "returned"
    /\ Len(lines) = 8
    /\ lines[4] = Ok(LineBlank)
    /\ IsOk(Returned_value)
    /\ Len(Returned_value.val.records) = 2
    /\ Returned_value.val.records[1].count = 1
    /\ Len(Returned_value.val.records[1].atoms) = 1
    /\ Returned_value.val.records[2].count = 2
    /\ Len(Returned_value.val.records[2].atoms) = 2
    /\ Returned_value.val.records[1].comment # Returned_value.val.records[2].comment
    /\ Returned_value.val.records[1].atoms[1] # Returned_value.val.records[2].atoms[1]

----------------------------------------------------------------------------
(* C12.  If the input ends while the parser is in the Count state (empty   *)
(* input, input ending right after a record's last atom line, or after     *)
(* trailing blank lines) the parse succeeds and returns exactly the        *)
(* records accumulated so far: an empty File for empty or all-blank input. *)

\* This step is the end of the input, met in the given state: try_from
\* returns without having taken an item.
InputEndsIn(st) ==
    /\ pc = "loop"
    /\ pc' = "returned"
    /\ lines' = lines
    /\ parse_state = st

\* How many records the Atoms arm has completed, by the log of the arms: an
\* item taken by Atoms after which the parser was in Count.
CompletedRecords ==
    Cardinality({i \in DOMAIN state_log :
                    /\ state_log[i] = "Atoms"
                    /\ IF i < Len(state_log) THEN state_log[i + 1] = "Count"
                       ELSE parse_state = "Count"})

AllBlank == \A i \in DOMAIN lines : lines[i] = Ok(LineBlank)

C12_EndInCountState ==
    [][InputEndsIn("Count") =>
          /\ result' = <<Ok(file)>>
          /\ Len(file.records) = CompletedRecords
          /\ (AllBlank => result' = <<Ok([records |-> <<>>])>>)]_vars

\* The input ended after a record and a trailing blank line.
C12_Witness ==
    /\ pc = "returned"
    /\ parse_state = "Count"
    /\ Len(lines) = 4
    /\ lines[4] = Ok(LineBlank)
    /\ IsOk(Returned_value)
    /\ Len(Returned_value.val.records) = 1

----------------------------------------------------------------------------
(* C13.  read(path) maps a failure to open the file into a ParseError of   *)
(* the ReadError kind at line 0, without running the parser; when the open *)
(* succeeds its result is that of File::try_from on the file's lines.      *)

C13_OpenStep ==
    pc = "open" =>
        \/ /\ pc' = "open_failed"
           /\ result' = <<Err([kind |-> "ReadError", line |-> 0])>>
           /\ lines' = <<>>
           /\ state_log' = <<>>
           /\ file' = [records |-> <<>>]
        \/ /\ pc' = "loop"
           /\ result' = <<>>
           /\ lines' = <<>>

C13_Read ==
    /\ [][C13_OpenStep]_vars
    /\ [][pc = "open_failed" => UNCHANGED vars]_vars
    /\ [](HasReturned => Returned_value = File_try_from(lines))

\* The open failed: read returned its error and no line was ever taken.
C13_Witness ==
    /\ pc = "open_failed"
    /\ result = <<Err([kind |-> "ReadError", line |-> 0])>>
    /\ lines = <<>>

----------------------------------------------------------------------------
(* C14.  The count line is trimmed before it is parsed: an integer with    *)
(* blanks around it is accepted as the count, and a line of blanks only is *)
(* skipped like an empty line.                                             *)

RECURSIVE TrimStart(_)
TrimStart(l) ==
    IF l # <<>> /\ IsWhitespace(l[1]) THEN TrimStart(Tail1(l)) ELSE l

RECURSIVE TrimEnd(_)
TrimEnd(l) ==
    IF l # <<>> /\ IsWhitespace(l[Len(l)])
    THEN TrimEnd(SubSeq(l, 1, Len(l) - 1)) ELSE l

Trim(l) == TrimEnd(TrimStart(l))

\* The loop returned an error (by C6, at the last line taken).
LastLineFailed == HasReturned /\ IsErr(Returned_value)

C14_CountLineTrimmed ==
    LastLineTakenBy("Count") =>
        LET t == Trim(LastItem.val)
        IN  /\ (t = <<>> => ~LastLineFailed /\ parse_state = "Count")
            /\ (t # <<>> /\ IsOk(ParseUsize(t)) =>
                    /\ ~LastLineFailed
                    /\ parse_state = "Comment"
                    /\ record.count = ParseUsize(t).val)

----------------------------------------------------------------------------
(* C15.  In the Count state a line that is not blank and not an unsigned   *)
(* integer makes the parse fail with ParseIntError at that line, also when *)
(* it directly follows a completed record.                                 *)

\* The loop takes a readable line in the given state.
TakesLineIn(st) ==
    /\ pc = "loop"
    /\ parse_state = st
    /\ lines' # lines
    /\ IsOk(lines'[Len(lines')])

LineTaken == lines'[Len(lines')].val

\* An unsigned integer as written: digits, after an optional "+".
IsUnsigned(l) ==
    \/ l # <<>> /\ AllDigits(l)
    \/ Len(l) > 1 /\ l[1] = "+" /\ AllDigits(Tail1(l))

C15_CountLineRejected ==
    [][(/\ TakesLineIn("Count")
        /\ Trim(LineTaken) # <<>>
        /\ ~IsUnsigned(Trim(LineTaken)))
       => /\ pc' = "returned"
          /\ result' = <<Err([kind |-> "ParseIntError", line |-> Len(lines)])>>
          /\ file' = file]_vars

\* A junk line directly after a completed record fails at its own index.
C15_Witness ==
    /\ pc = "returned"
    /\ Len(lines) = 4
    /\ lines[4] = Ok(LineJunk)
    /\ Len(file.records) = 1
    /\ result = <<Err([kind |-> "ParseIntError", line |-> 3])>>

----------------------------------------------------------------------------
(* C16.  In the Comment state the line is stored unchanged as the comment  *)
(* of the record and the state becomes Atoms, whatever the line is: no     *)
(* line is skipped there and none is an error.                             *)

C16_CommentAlwaysStored ==
    [][TakesLineIn("Comment")
       => /\ pc' = "loop"
          /\ result' = <<>>
          /\ parse_state' = "Atoms"
          /\ record'.comment = LineTaken
          /\ record'.count = record.count
          /\ record'.atoms = record.atoms
          /\ file' = file]_vars

\* An empty line after the count became the comment of a record that was
\* then completed by an atom line.
C16_Witness ==
    /\ Len(lines) = 3
    /\ lines[2] = Ok(LineBlank)
    /\ Len(file.records) = 1
    /\ file.records[1].comment = <<>>
    /\ parse_state = "Count"

----------------------------------------------------------------------------
(* C17.  Tokens after the fourth of an atom line are ignored: the line has *)
(* the effect of the line cut after its fourth token, the same atom or the *)
(* same error.                                                             *)

\* The line up to the end of its fourth token (the whole line if it has
\* fewer than five tokens).
FirstFourTokens(l) ==
    LET ends == {k \in 1..Len(l) :
                    /\ ~IsWhitespace(l[k])
                    /\ (k = Len(l) \/ IsWhitespace(l[k + 1]))}
        fourth == {k \in ends : Cardinality({j \in ends : j <= k}) = 4}
    IN  IF fourth = {} THEN l ELSE SubSeq(l, 1, CHOOSE k \in fourth : TRUE)

C17_ExtraTokensIgnored ==
    (LastLineTakenBy("Atoms") /\ Len(LastTokens) > 4) =>
        LET cut == [lines EXCEPT ![Len(lines)] = Ok(FirstFourTokens(LastItem.val))]
            s   == Loop(ParserInit, cut, 1)
        IN  /\ Len(split_whitespace(cut[Len(lines)].val)) = 4
            /\ s.file = file
            /\ s.record = record
            /\ s.parse_state = parse_state
            /\ (s.ret # <<>> => result = s.ret)
            /\ (s.ret = <<>> => ~LastLineFailed)

\* "C 1 2 5 7" completed a record of one atom at (1, 2, 5).
C17_Witness ==
    /\ Len(lines) = 3
    /\ lines[3] = Ok(LineFiveNumbers)
    /\ Len(file.records) = 1
    /\ file.records[1].atoms =
           <<Atom(<<"C">>, Position([neg |-> FALSE, m |-> 1, e |-> 0],
                                    [neg |-> FALSE, m |-> 2, e |-> 0],
                                    [neg |-> FALSE, m |-> 5, e |-> 0]))>>

----------------------------------------------------------------------------
(* C18.  When the input ends inside a record and no line failed, the       *)
(* record under construction is dropped: try_from returns Ok with the      *)
(* records completed before, and nothing else.                             *)

C18_PartialRecordDropped ==
    [][(InputEndsIn("Comment") \/ InputEndsIn("Atoms"))
       => /\ result' = <<Ok(file)>>
          /\ Len(file.records) = CompletedRecords
          /\ ((\A i \in DOMAIN lines : lines[i] # Ok(LineZero))
                 => file.records = FramesFrom(lines, 1))]_vars

\* The input ended after the first of two atoms of a second record.
C18_Witness ==
    /\ pc = "returned"
    /\ parse_state = "Atoms"
    /\ record.count = 2
    /\ Len(record.atoms) = 1
    /\ IsOk(Returned_value)
    /\ Len(Returned_value.val.records) = 1

----------------------------------------------------------------------------
(* C19.  Every record of a File returned by try_from has at least one      *)
(* atom, and the number of its atoms is max(count, 1).                     *)

C19_AtomsLenIsMaxCountOne ==
    (HasReturned /\ IsOk(Returned_value)) =>
        \A i \in DOMAIN Returned_value.val.records :
            LET r == Returned_value.val.records[i]
            IN  /\ r.atoms # <<>>
                /\ Len(r.atoms) = IF r.count > 1 THEN r.count ELSE 1

\* A record declared with count 0 was returned with one atom.
C19_Witness ==
    /\ HasReturned
    /\ IsOk(Returned_value)
    /\ Len(Returned_value.val.records) = 1
    /\ Returned_value.val.records[1].count = 0
    /\ Len(Returned_value.val.records[1].atoms) = 1

====
